---- MODULE Spec2Model ----
(***************************************************************************)
(* MindSync server bootstrap: configuration, CORS policy, the middleware   *)
(* chain, the rate limiter, route mounting, startup and shutdown.          *)
(*                                                                         *)
(* The program is an Express application.  One action of the model is one  *)
(* turn of the event loop: the code that runs synchronously between two    *)
(* suspension points.  The middleware the program installs from libraries  *)
(* (cors, express.json, cookie-parser, compression, helmet,                *)
(* express-rate-limit with its default in-memory store) is modelled by     *)
(* what the installed configuration makes it do.                           *)
(***************************************************************************)
EXTENDS Integers, Sequences, FiniteSets, Bags, TLC

VARIABLES
    env,        \* process.env: NODE_ENV and NODE_ORIGIN
    config,     \* the configuration record built from process.env
    stack,      \* the application's middleware/route stack, in app.use order
    server,     \* "none" | "binding" | "bound" | "error"
    failed,     \* TRUE once the startup try block has thrown
    handler,    \* "idle" | "try": position inside handleServerShutdown
    exit,       \* NoExit, or <<status>> once the process has ended
    out,        \* the console.log calls of the current turn, each its arguments
    now,        \* Date.now(), in milliseconds
    store,      \* the rate limiter's store: client key -> {totalHits, resetTime}
    inflight,   \* bag of requests suspended inside the limiter middleware
    res,        \* the response written during the current turn, or None
    seen        \* history: per key, the requests counted in its present window

vars == <<env, config, stack, server, failed, handler, exit, out, now, store,
          inflight, res, seen>>

-----------------------------------------------------------------------------
(* Bounds of the model *)

MaxInflight == 2    \* requests suspended in the limiter at the same time
MaxTicks == 2       \* clock advances
MaxOver == 2        \* requests the heavy client sends beyond the limit
MaxOther == 1       \* requests per window of the second client

-----------------------------------------------------------------------------
(* Values *)

None == [kind |-> "none"]
NoError == <<>>
NoExit == <<>>
Undefined == "undefined"
NoOrigin == "no-origin"

DefaultOrigin == "http://localhost:5173"
CustomOrigin == "https://app.mindsync.io"
EvilOrigin == "http://evil.example"

Heavy == "10.0.0.1"
Other == "10.0.0.2"
Keys == {Heavy, Other}

Paths == {"/health", "/api/v1"}
Bodies == {"json", "malformed"}
Signals == {"SIGTERM", "SIGINT"}

\* part_001: rateLimit({ windowMs, limit, message })
windowMs == 60000
limit == 60
message ==
    [error |-> "You have sent too many request in a given amount of time. Please try again later."]

Tick == windowMs \div 2

-----------------------------------------------------------------------------
(* Configuration loader *)

\* An environment variable that is unset or empty is falsy.
Falsy(v) == v = Undefined \/ v = ""

WHITELIST_ORIGINS(nodeOrigin) ==
    IF ~Falsy(nodeOrigin) THEN <<DefaultOrigin, nodeOrigin>> ELSE <<DefaultOrigin>>

Config(e) ==
    [NODE_ENV |-> e.NODE_ENV,
     WHITELIST_ORIGINS |-> WHITELIST_ORIGINS(e.NODE_ORIGIN)]

Includes(seq, x) == \E i \in 1..Len(seq) : seq[i] = x

-----------------------------------------------------------------------------
(* CORS policy *)

CorsMessage(origin) == <<"CORS Error: ", origin, " is not allowed by CORS">>

\* !origin: the header is absent, or present and empty.
NotOrigin(origin) == origin = NoOrigin \/ origin = ""

\* Variant: the bypass is taken whenever the environment is not production.
corOptions_origin_NotProduction(cfg, origin) ==
    IF \/ cfg.NODE_ENV # "production"
       \/ NotOrigin(origin)
       \/ Includes(cfg.WHITELIST_ORIGINS, origin)
    THEN [err |-> NoError, allow |-> TRUE]
    ELSE [err |-> CorsMessage(origin), allow |-> FALSE]

\* corOptions.origin(origin, callback): the arguments handed to callback.
corOptions_origin(cfg, origin) ==
    IF \/ cfg.NODE_ENV = "development"
       \/ NotOrigin(origin)
       \/ Includes(cfg.WHITELIST_ORIGINS, origin)
    THEN [err |-> NoError, allow |-> TRUE]
    ELSE [err |-> CorsMessage(origin), allow |-> FALSE]

\* console.log on a denial, after the callback has been called.
CorsLog(cfg, origin) ==
    IF corOptions_origin(cfg, origin).allow THEN <<>>
    ELSE <<CorsMessage(origin)>>

-----------------------------------------------------------------------------
(* Middleware chain and routes *)

\* Variant: helmet installed before compression.
MiddlewareSwapped ==
    <<"cors", "json", "urlencoded", "cookieParser", "helmet", "compression",
      "limiter">>

\* index.ts 75-110: the app.use calls made while the module loads, in order.
Middleware ==
    <<"cors", "json", "urlencoded", "cookieParser", "compression", "helmet",
      "limiter">>

\* mindSyncRoute(app): the two mount points, in order.
mindSyncRoute == <<"/health", "/api/v1">>

\* Variant: the health payload reports a false status.
HealthBodyDown == [status |-> FALSE, message |-> "MindSync is OK!"]

HealthBody == [status |-> TRUE, message |-> "MindSync is OK!"]

Response(req, status, body, ran) ==
    [kind |-> "response", key |-> req.key, path |-> req.path,
     status |-> status, body |-> body, ran |-> ran, nth |-> 0]

Suspended(req, at, ran) ==
    [kind |-> "await", key |-> req.key, path |-> req.path, at |-> at,
     ran |-> ran]

\* What one layer of the stack does with a request; `next` is the rest of
\* the stack, `ran` the layers entered so far including this one.
\*  - cors: callback(err) ends the request in the error handler (500)
\*  - json: a malformed JSON body ends it with a 400
\*  - limiter: an async middleware, the request is suspended in it
\*  - a mount point answers only the requests under its path
Layer(cfg, layer, req, at, ran, next, skip) ==
    CASE layer = "cors" ->
           LET cb == corOptions_origin(cfg, req.origin)
           IN  IF cb.allow THEN next ELSE Response(req, 500, cb.err, ran)
      [] layer = "json" ->
           IF req.body = "malformed"
           THEN Response(req, 400, "entity.parse.failed", ran)
           ELSE next
      [] layer \in {"urlencoded", "cookieParser", "compression", "helmet"} ->
           next
      [] layer = "limiter" -> Suspended(req, at, ran)
      [] layer = "/health" ->
           IF req.path = "/health" THEN Response(req, 200, HealthBody, ran)
           ELSE skip
      [] layer = "/api/v1" ->
           IF req.path = "/api/v1" THEN Response(req, 0, "AuthRoute", ran)
           ELSE skip

\* Express walks the stack from layer `at`; past its end the final handler
\* answers 404.
RECURSIVE Dispatch(_, _, _, _, _)
Dispatch(cfg, stk, req, at, ran) ==
    IF at > Len(stk) THEN Response(req, 404, "Not Found", ran)
    ELSE Layer(cfg, stk[at], req, at, Append(ran, stk[at]),
               Dispatch(cfg, stk, req, at + 1, Append(ran, stk[at])),
               Dispatch(cfg, stk, req, at + 1, ran))

-----------------------------------------------------------------------------
(* Rate limiter: express-rate-limit's in-memory store, windowMs and limit *)

\* No keyGenerator is configured: a client's key is its address.
keyGenerator(req) == req.key

resetClient(t) == [totalHits |-> 0, resetTime |-> t + windowMs]

\* Variant: the increment is lost.
HitLost(client) == client

Hit(client) == [client EXCEPT !.totalHits = @ + 1]

\* Variant: a window is still open at its reset time.
ExpiredLate(client, t) == client.resetTime < t

Expired(client, t) == client.resetTime <= t

\* store.increment(key) at time t: the client's entry afterwards.
increment(st, key, t) ==
    LET found == IF key \in DOMAIN st THEN st[key] ELSE resetClient(t)
        client == IF Expired(found, t) THEN resetClient(t) ELSE found
    IN  Hit(client)

\* Variant: the request that reaches the limit is rejected.
ExceededAtLimit(totalHits) == totalHits >= limit

Exceeded(totalHits) == totalHits > limit

Put(st, key, client) ==
    [k \in DOMAIN st \cup {key} |-> IF k = key THEN client ELSE st[k]]

-----------------------------------------------------------------------------
(* History of the limiter's windows, kept beside the store *)

\* start: when the window began; n: requests counted in it; fwd: those of
\* them handed on; was: the window it replaced ended over the limit.
NoWindow == [start |-> 0, n |-> 0, fwd |-> 0, was |-> FALSE]

Counted(w, t, forwarded) ==
    LET fresh == w.n = 0 \/ t >= w.start + windowMs
    IN  [start |-> IF fresh THEN t ELSE w.start,
         n |-> (IF fresh THEN 0 ELSE w.n) + 1,
         fwd |-> (IF fresh THEN 0 ELSE w.fwd) + (IF forwarded THEN 1 ELSE 0),
         was |-> IF fresh THEN w.n > limit ELSE w.was]

-----------------------------------------------------------------------------
(* Bounds on the clients *)

Cap(key) == IF key = Heavy THEN limit + MaxOver ELSE MaxOther

\* The first client polls the health endpoint, the second calls the API.
Asks(key) == IF key = Heavy THEN {"/health"} ELSE {"/api/v1"}

InFlightOf(key) ==
    LET S == {r \in BagToSet(inflight) : r.key = key}
    IN  IF S = {} THEN 0 ELSE BagCardinality([r \in S |-> inflight[r]])

Pending(key) ==
    (IF key \in DOMAIN store /\ ~Expired(store[key], now)
     THEN store[key].totalHits ELSE 0) + InFlightOf(key)

-----------------------------------------------------------------------------
(* Initial state: the module has loaded the configuration and installed the *)
(* middleware; the startup function has not run yet.                        *)

NodeEnvs == {"development", "production"}
NodeOrigins == {Undefined}
Origins == {NoOrigin, DefaultOrigin, EvilOrigin}

Loaded(nodeEnvs, nodeOrigins) ==
    /\ env \in [NODE_ENV : nodeEnvs, NODE_ORIGIN : nodeOrigins]
    /\ config = Config(env)
    /\ stack = Middleware
    /\ server = "none"
    /\ failed = FALSE
    /\ handler = "idle"
    /\ exit = NoExit
    /\ out = <<>>
    /\ now = 0
    /\ store = [k \in {} |-> resetClient(0)]
    /\ inflight = EmptyBag
    /\ res = None
    /\ seen = [k \in Keys |-> NoWindow]

Init == Loaded(NodeEnvs, NodeOrigins)

\* The event loop is between two turns: nothing is being written.
Running == exit = NoExit /\ handler = "idle" /\ res = None /\ out = <<>>

\* process.exit(code): the process and everything it held are gone.
Exit(code) ==
    /\ exit' = <<code>>
    /\ store' = [k \in {} |-> resetClient(0)]
    /\ inflight' = EmptyBag
    /\ res' = None
    /\ seen' = [k \in Keys |-> NoWindow]

-----------------------------------------------------------------------------
(* Startup *)

\* Variant: app.listen() is called without the routes having been mounted.
StartupOkNoRoutes ==
    /\ Running /\ server = "none" /\ ~failed
    /\ server' = "binding"
    /\ UNCHANGED <<env, config, stack, failed, handler, exit, out, now, store,
                   inflight, res, seen>>

\* The try block of the startup function: mindSyncRoute(app), app.listen().
StartupOk ==
    /\ Running /\ server = "none" /\ ~failed
    /\ stack' = stack \o mindSyncRoute
    /\ server' = "binding"
    /\ UNCHANGED <<env, config, failed, handler, exit, out, now, store, inflight,
                   res, seen>>

\* mindSyncRoute throws (the second app.use, after /health is mounted):
\* the catch block logs, and exits with 1 in production only.
StartupThrows ==
    /\ Running /\ server = "none" /\ ~failed
    /\ stack' = Append(stack, mindSyncRoute[1])
    /\ failed' = TRUE
    /\ out' = Append(out, <<"Failed to start the server">>)
    /\ IF config.NODE_ENV = "production"
       THEN Exit(1)
       ELSE UNCHANGED <<exit, store, inflight, res, seen>>
    /\ UNCHANGED <<env, config, server, handler, now>>

\* The listen callback: the socket is bound.
BindOk ==
    /\ Running /\ server = "binding"
    /\ server' = "bound"
    /\ out' = Append(out, <<"Server is running on port">>)
    /\ UNCHANGED <<env, config, stack, failed, handler, exit, now, store, inflight,
                   res, seen>>

\* The bind fails (EADDRINUSE, EACCES).  The failure is reported after the
\* try block has been left, as the server's 'error' event; the program has no
\* listener for it.  Two outcomes, by the version of express installed:
\*   crash    - the event is unhandled, the process ends with status 1
\*   callback - the error is handed to the listen callback, which ignores
\*              its argument and logs that the server is running
BindFails(outcome) ==
    /\ Running /\ server = "binding"
    /\ server' = "error"
    /\ IF outcome = "crash"
       THEN Exit(1) /\ UNCHANGED out
       ELSE /\ out' = Append(out, <<"Server is running on port">>)
            /\ UNCHANGED <<exit, store, inflight, res, seen>>
    /\ UNCHANGED <<env, config, stack, failed, handler, now>>

-----------------------------------------------------------------------------
(* Shutdown *)

\* process.on(sig, handleServerShutdown): the handlers are registered once
\* the startup function has returned.
Signal(sig) ==
    /\ Running /\ (server # "none" \/ failed)
    /\ handler' = "try"
    /\ UNCHANGED <<env, config, stack, server, failed, exit, out, now, store,
                   inflight, res, seen>>

\* The try block of handleServerShutdown runs to its end.
ShutdownExits ==
    /\ exit = NoExit /\ handler = "try"
    /\ out' = Append(out, <<"Server SHUTDOWN">>)
    /\ handler' = "idle"
    /\ Exit(0)
    /\ UNCHANGED <<env, config, stack, server, failed, now>>

\* The try block throws before process.exit(0): the catch block logs the
\* error and the handler returns.
ShutdownThrows ==
    /\ exit = NoExit /\ handler = "try"
    /\ out' = Append(out, <<"Error during server shutdown">>)
    /\ handler' = "idle"
    /\ UNCHANGED <<env, config, stack, server, failed, exit, now, store, inflight,
                   res, seen>>

-----------------------------------------------------------------------------
(* Requests *)

\* Variant: a denial is thrown out of the origin function instead of being
\* handed to the callback; the request is answered and the process ends.
ArriveThrows(key, origin, path, body) ==
    /\ Running /\ server = "bound"
    /\ BagCardinality(inflight) < MaxInflight
    /\ Pending(key) < Cap(key)
    /\ LET req == [key |-> key, origin |-> origin, path |-> path,
                   body |-> body]
           got == Dispatch(config, stack, req, 1, <<>>)
       IN  /\ IF got.kind = "await"
              THEN inflight' = inflight (+) SetToBag({got}) /\ res' = None
              ELSE res' = got /\ inflight' = inflight
           /\ out' = CorsLog(config, origin)
           /\ exit' = IF corOptions_origin(config, origin).allow THEN exit
                      ELSE <<1>>
    /\ UNCHANGED <<env, config, stack, server, failed, handler, now, store,
                   seen>>

\* A request arrives and runs down the stack until it is answered or is
\* suspended in the limiter.
Arrive(key, origin, path, body) ==
    /\ Running /\ server = "bound"
    /\ BagCardinality(inflight) < MaxInflight
    /\ Pending(key) < Cap(key)
    /\ LET req == [key |-> key, origin |-> origin, path |-> path,
                   body |-> body]
           got == Dispatch(config, stack, req, 1, <<>>)
       IN  /\ IF got.kind = "await"
              THEN inflight' = inflight (+) SetToBag({got}) /\ res' = None
              ELSE res' = got /\ inflight' = inflight
           /\ out' = CorsLog(config, origin)
    /\ UNCHANGED <<env, config, stack, server, failed, handler, exit, now,
                   store, seen>>

\* A suspended request resumes in the limiter: the store counts it, then it
\* is rejected with 429 and the message, or handed to the next layer.
Limit(r) ==
    /\ Running
    /\ BagIn(r, inflight)
    /\ LET key == keyGenerator(r)
           client == increment(store, key, now)
           over == Exceeded(client.totalHits)
           w == Counted(seen[r.key], now, ~over)
           got == IF over THEN Response(r, 429, message, r.ran)
                  ELSE Dispatch(config, stack, r, r.at + 1, r.ran)
       IN  /\ store' = Put(store, key, client)
           /\ seen' = [seen EXCEPT ![r.key] = w]
           /\ res' = [got EXCEPT !.nth = w.n]
    /\ inflight' = inflight (-) SetToBag({r})
    /\ UNCHANGED <<env, config, stack, server, failed, handler, exit, out, now>>

\* The turn ends: what it wrote has left for the socket and for stdout.
Finish ==
    /\ exit = NoExit /\ handler = "idle"
    /\ (res # None \/ out # <<>>)
    /\ res' = None
    /\ out' = <<>>
    /\ UNCHANGED <<env, config, stack, server, failed, handler, exit, now, store,
                   inflight, seen>>

\* Time passes.
Advance ==
    /\ Running
    /\ now \div Tick < MaxTicks
    /\ now' = now + Tick
    /\ UNCHANGED <<env, config, stack, server, failed, handler, exit, out, store,
                   inflight, res, seen>>

-----------------------------------------------------------------------------

Next ==
    \/ StartupOk
    \/ StartupThrows
    \/ BindOk
    \/ \E outcome \in {"crash", "callback"} : BindFails(outcome)
    \/ \E sig \in Signals : Signal(sig)
    \/ ShutdownExits
    \/ ShutdownThrows
    \/ \E key \in Keys, origin \in Origins, body \in Bodies :
          \E path \in Asks(key) : Arrive(key, origin, path, body)
    \/ \E r \in BagToSet(inflight) : Limit(r)
    \/ Finish
    \/ Advance

Spec == Init /\ [][Next]_vars

-----------------------------------------------------------------------------
(* The CORS policy on its own: every configuration the loader can build,   *)
(* every kind of Origin header, one evaluation per step.                   *)

AllNodeEnvs == {"development", "production", "test", Undefined}
AllNodeOrigins == {Undefined, "", CustomOrigin, EvilOrigin}
AllOrigins ==
    {NoOrigin, "", "null", DefaultOrigin, "http://localhost:5173/",
     "http://localhost:3000", CustomOrigin, EvilOrigin}

InitCors == Loaded(AllNodeEnvs, AllNodeOrigins)

Evaluate(origin) ==
    /\ res' = [kind |-> "cors", origin |-> origin,
               callback |-> corOptions_origin(config, origin)]
    /\ out' = CorsLog(config, origin)
    /\ UNCHANGED <<env, config, stack, server, failed, handler, exit, now,
                   store, inflight, seen>>

NextCors == \E origin \in AllOrigins : Evaluate(origin)

SpecCors == InitCors /\ [][NextCors]_vars

-----------------------------------------------------------------------------
(* Claims *)

Last(seq) == seq[Len(seq)]

EnvOrigins == IF env.NODE_ORIGIN # Undefined THEN {env.NODE_ORIGIN} ELSE {}

\* C1 as stated: the evaluator allows exactly when the environment is
\* development, or the origin is absent, or the origin is the default or the
\* configured custom origin; a denial carries an error naming the origin.
C1_AsStated ==
    res.kind = "cors" =>
        /\ res.callback.allow <=>
              \/ env.NODE_ENV = "development"
              \/ res.origin = NoOrigin
              \/ res.origin \in {"http://localhost:5173"} \cup EnvOrigins
        /\ ~res.callback.allow => Includes(res.callback.err, res.origin)

\* C1 amended: the evaluator allows exactly when the environment is
\* development, or the Origin header is absent or empty, or the origin is the
\* default or the configured custom origin; a denial carries an error naming
\* the origin, and the same line is logged.
C1_CorsDecision ==
    res.kind = "cors" =>
        /\ res.callback.allow <=>
              \/ env.NODE_ENV = "development"
              \/ res.origin \in {NoOrigin, ""}
              \/ res.origin \in {"http://localhost:5173"} \cup EnvOrigins
        /\ ~res.callback.allow =>
              /\ Includes(res.callback.err, res.origin)
              /\ out = <<res.callback.err>>

\* An empty Origin header is let through in production.
C1_Witness ==
    /\ res.kind = "cors"
    /\ res.origin = ""
    /\ env.NODE_ENV = "production"
    /\ res.callback.allow

-----------------------------------------------------------------------------

Answered == res.kind = "response"
Counted1 == Answered /\ res.nth > 0        \* the limiter counted the request
Rejections == {500, 400, 429}

\* C2: of the requests one client key sends inside one window of the
\* limiter, the 1st to the 60th are handed on past the limiter, and the 61st
\* and every later one is answered 429 with the fixed error payload.
C2_SixtyPerWindow ==
    Counted1 =>
        /\ res.nth <= 60 => res.status # 429 /\ Last(res.ran) # "limiter"
        /\ res.nth >= 61 =>
              /\ res.status = 429
              /\ res.body.error =
                    "You have sent too many request in a given amount of time. Please try again later."
              /\ Last(res.ran) = "limiter"

\* The 61st request of a window has been rejected.
C2_Witness == Counted1 /\ res.nth = 61 /\ res.status = 429

\* C3 as stated: every /health request is answered 200 with the fixed body.
C3_AsStated ==
    (Answered /\ res.path = "/health") =>
        /\ res.status = 200
        /\ res.body = [status |-> TRUE, message |-> "MindSync is OK!"]

\* C3 amended: a /health request that no stage of the chain stops is answered
\* 200 with the fixed body, in every environment; otherwise it is stopped by
\* the CORS evaluation (500), the JSON parser (400) or the rate limiter (429)
\* and the health handler does not run.
C3_HealthUnlessStopped ==
    (Answered /\ res.path = "/health") =>
        IF Last(res.ran) = "/health"
        THEN /\ res.status = 200
             /\ res.body = [status |-> TRUE, message |-> "MindSync is OK!"]
        ELSE /\ res.status \in Rejections
             /\ Last(res.ran) \in {"cors", "json", "limiter"}
             /\ ~Includes(res.ran, "/health")

\* A /health request answered 200 in production.
C3_Witness ==
    /\ Answered /\ res.path = "/health" /\ res.status = 200
    /\ config.NODE_ENV = "production"

\* The turn that has just ended ran handleServerShutdown.
ShutdownRan ==
    handler = "idle" /\
    \E i \in 1..Len(out) :
        out[i] \in {<<"Server SHUTDOWN">>, <<"Error during server shutdown">>}

\* C4: once handleServerShutdown has run on a signal received while
\* listening, the shutdown message is logged and the process has exited with
\* status 0, also when its try block threw.
C4_ShutdownExitsZero ==
    (ShutdownRan /\ server = "bound") =>
        /\ Includes(out, <<"Server SHUTDOWN">>)
        /\ exit = <<0>>

StartFailed == failed \/ server = "error"

\* C5: on a startup failure (route setup or bind) the error is logged, and
\* the process exits with status 1 in production and does not exit otherwise.
C5_StartupFailure ==
    [][(StartFailed' /\ ~StartFailed) =>
          /\ Includes(out', <<"Failed to start the server">>)
          /\ IF config.NODE_ENV = "production" THEN exit' = <<1>>
             ELSE exit' = NoExit]_vars

ClaimedOrder ==
    <<"cors", "json", "urlencoded", "cookieParser", "compression", "helmet",
      "limiter">>

InOrder(ran) ==
    /\ Len(ran) <= Len(ClaimedOrder) + 1
    /\ \A i \in 1..Len(ran) :
          IF i <= Len(ClaimedOrder) THEN ran[i] = ClaimedOrder[i]
          ELSE ran[i] \in {"/health", "/api/v1"}

\* C6: a request enters the stages in the order CORS, JSON, URL-encoded,
\* cookies, compression, security headers, rate limiter, and a route handler
\* only after all seven; a stage that stops the request is the last to run.
C6_PipelineOrder ==
    /\ Answered =>
          /\ InOrder(res.ran)
          /\ res.status = 500 => Last(res.ran) = "cors"
          /\ res.status = 400 => Last(res.ran) = "json"
          /\ res.status = 429 => Last(res.ran) = "limiter"
          /\ res.status \notin Rejections => Len(res.ran) > Len(ClaimedOrder)
    /\ \A r \in BagToSet(inflight) : r.ran = ClaimedOrder

\* A malformed body stopped the request in the JSON parser.
C6_Witness == Answered /\ res.status = 400 /\ res.ran = <<"cors", "json">>

\* C10: each request counted by the limiter raises its key's counter by
\* exactly one, whatever the order in which suspended requests resume, and no
\* key has more than 60 requests handed on within one window.
C10_NoLostUpdate ==
    \A k \in Keys :
        /\ seen[k].fwd <= 60
        /\ k \in DOMAIN store => store[k].totalHits = seen[k].n
        /\ k \notin DOMAIN store => seen[k].n = 0

\* The 60th request of a key has been handed on while another request of the
\* same key is still suspended in the limiter.
C10_Witness ==
    /\ Counted1 /\ res.nth = 60 /\ res.status # 429
    /\ InFlightOf(res.key) >= 1

-----------------------------------------------------------------------------

\* This step answered a request.
Answers == res.kind = "none" /\ res'.kind = "response"

SameCounter(k) ==
    /\ k \in DOMAIN store' <=> k \in DOMAIN store
    /\ k \in DOMAIN store => store'[k] = store[k]

\* C7: a step that rejects a request (CORS denial, body parse failure, rate
\* limit) leaves the server listening, the configuration and the counter of
\* every other client key as they were; a denial or a parse failure leaves
\* the whole store and the suspended requests as they were.
C7_RejectionFrame ==
    [][(Answers /\ res'.status \in Rejections) =>
          /\ server = "bound" /\ server' = "bound"
          /\ exit' = NoExit /\ handler' = "idle"
          /\ <<env, config, stack, failed>>' = <<env, config, stack, failed>>
          /\ \A k \in Keys \ {res'.key} : SameCounter(k)
          /\ res'.status \in {500, 400} =>
                store' = store /\ inflight' = inflight]_vars

\* A request has been rejected by the limiter while the other client's
\* counter exists and a further request is suspended.
C7_Witness ==
    /\ Answered /\ res.status = 429
    /\ (Keys \ {res.key}) \cap DOMAIN store # {}
    /\ inflight # EmptyBag

\* The lifecycle controller's state.
Lifecycle ==
    IF exit # NoExit THEN "terminated"
    ELSE IF handler = "try" THEN "shutting down"
    ELSE IF server = "bound" THEN "listening"
    ELSE "starting"

RoutesMounted == stack = ClaimedOrder \o <<"/health", "/api/v1">>

\* C8 as stated: the lifecycle only moves starting -> listening ->
\* shutting down -> terminated.
C8_AsStated ==
    [][Lifecycle' # Lifecycle =>
          <<Lifecycle, Lifecycle'>> \in
              {<<"starting", "listening">>,
               <<"listening", "shutting down">>,
               <<"shutting down", "terminated">>}]_vars

\* C8 amended: listening is entered only from starting, with the routes
\* mounted and the socket bound; shutting down is entered only on SIGTERM or
\* SIGINT, from listening or from starting; terminated is entered from
\* shutting down with status 0 or, on a startup failure, from starting with
\* status 1, and is never left; shutting down is left for the state it
\* interrupted only when the shutdown handler's try block throws.
C8_Lifecycle ==
    [][Lifecycle' # Lifecycle =>
          CASE Lifecycle = "starting" /\ Lifecycle' = "listening" ->
                 RoutesMounted' /\ server = "binding" /\ server' = "bound"
            [] Lifecycle \in {"starting", "listening"} /\
               Lifecycle' = "shutting down" ->
                 \E sig \in Signals : Signal(sig)
            [] Lifecycle = "shutting down" /\ Lifecycle' = "terminated" ->
                 exit' = <<0>>
            [] Lifecycle = "starting" /\ Lifecycle' = "terminated" ->
                 exit' = <<1>> /\ StartFailed'
            [] Lifecycle = "shutting down" /\
               Lifecycle' \in {"starting", "listening"} ->
                 ShutdownThrows
            [] OTHER -> FALSE]_vars

\* The process has ended from starting, without ever listening.
C8_Witness == Lifecycle = "terminated" /\ exit = <<1>> /\ failed

\* C9: when the limiter counts a request of a key that has no entry or whose
\* window began 60 seconds ago or more, the key gets a fresh entry with count
\* 1 and a window starting now, and the request is handed on, also when the
\* key was over the limit; otherwise the existing count is raised by one and
\* the window is kept.
C9_WindowReset ==
    [][(Answers /\ res'.nth > 0) =>
          LET k == res'.key
              elapsed == seen[k].n = 0 \/ now >= seen[k].start + 60000
          IN  IF elapsed
              THEN /\ store'[k] = [totalHits |-> 1, resetTime |-> now + 60000]
                   /\ res'.status # 429
              ELSE /\ k \in DOMAIN store
                   /\ store'[k] = [totalHits |-> store[k].totalHits + 1,
                                   resetTime |-> store[k].resetTime]]_vars

\* A key that was over the limit had its window elapse; its next request
\* opened a fresh entry and was handed on.
C9_Witness ==
    /\ Counted1 /\ res.nth = 1 /\ res.status # 429
    /\ seen[res.key].was
    /\ store[res.key].totalHits = 1

====
